---- MODULE Spec2Model ----
(***************************************************************************)
(* pdldb: LakeManager (the facade, lake_manager.py) over BaseTableManager  *)
(* (the catalog and the write/maintenance dispatch, base_table_manager.py) *)
(* over the Delta engine.                                                  *)
(*                                                                         *)
(* Python strings are sequences of one-character strings, so that          *)
(* ",".join, str.split(","), str.strip and the f-strings of the merge      *)
(* predicate are computed character by character.                          *)
(***************************************************************************)
EXTENDS Bags, FiniteSets, Integers, Sequences, TLC

VARIABLES
  tables,    \* BaseTableManager.tables: table name -> BaseTable
  store,     \* the engine's storage under base_path, per table path
  calls,     \* the engine calls made by the latest facade call, in order
  last,      \* the latest facade call: its arguments, what it raised or returned
  declared   \* per catalog entry, the arguments of the create_table that made it

vars == <<tables, store, calls, last, declared>>

----------------------------------------------------------------------------
(* Bounds of the model *)

\* most rows a stored table holds
MaxRows == 2
\* most rows a DataFrame handed to a write holds
MaxBatch == 2
\* longest primary-key string drawn in SpecKeys
MaxLen == 2

----------------------------------------------------------------------------
(* Python string operations *)

Space == " "
Comma == ","

RECURSIVE lstrip(_)
lstrip(s) ==
  IF s # <<>> /\ Head(s) = Space THEN lstrip(Tail(s)) ELSE s

RECURSIVE rstrip(_)
rstrip(s) ==
  IF s # <<>> /\ s[Len(s)] = Space THEN rstrip(SubSeq(s, 1, Len(s) - 1)) ELSE s

\* str.strip(): leading and trailing whitespace removed
strip(s) == rstrip(lstrip(s))

\* sep.join(parts)
RECURSIVE join(_, _)
join(sep, parts) ==
  IF parts = <<>> THEN <<>>
  ELSE IF Len(parts) = 1 THEN parts[1]
  ELSE parts[1] \o sep \o join(sep, Tail(parts))

\* "," in s
HasComma(s) == \E i \in 1..Len(s) : s[i] = Comma

\* s.split(","): the pieces between commas, empty pieces kept
RECURSIVE split_from(_, _)
split_from(s, cur) ==
  IF s = <<>> THEN <<cur>>
  ELSE IF Head(s) = Comma THEN <<cur>> \o split_from(Tail(s), <<>>)
  ELSE split_from(Tail(s), Append(cur, Head(s)))

split(s) == split_from(s, <<>>)

----------------------------------------------------------------------------
(* Values: names, schemas, rows, DataFrames, primary-key declarations *)

A == <<"a">>
B == <<"b">>

\* table names a caller passes: two usable ones, the empty one, a blank one
T1 == <<"t">>
T2 == <<"u">>
Paths == {T1, T2}
NameInputs == {T1, T2, <<>>, <<Space>>}

\* a schema (dict: column name -> dtype) is the set of its items
TableSchema == {<<A, "Int64">>, <<B, "Int64">>}
Columns(schema) == {it[1] : it \in schema}

Vals == {1, 2}
Rows == [Columns(TableSchema) -> Vals]

\* DataFrames of the table's schema: at most MaxBatch rows, one row per value
\* of column a, so that the rows are unique under every declared primary key
GoodFrames ==
  { [schema |-> TableSchema, rows |-> rs] :
      rs \in { r \in SUBSET Rows :
                 /\ Cardinality(r) <= MaxBatch
                 /\ \A x, y \in r : x[A] = y[A] => x = y } }

\* DataFrames of another shape: a column missing, a column more, a dtype changed
BadFrames ==
  { [schema |-> {<<A, "Int64">>}, rows |-> {[c \in {A} |-> 1]}],
    [schema |-> TableSchema \cup {<<<<"c">>, "Int64">>}, rows |-> {}],
    [schema |-> {<<A, "Int64">>, <<B, "Utf8">>}, rows |-> {[c \in {A, B} |-> 1]}] }

DataFrames == GoodFrames \cup BadFrames

\* primary_keys: Union[str, list[str]]
StrKey(s) == [isList |-> FALSE, str |-> s, items |-> <<>>]
ListKey(xs) == [isList |-> TRUE, str |-> <<>>, items |-> xs]

PKDecls == {StrKey(A), ListKey(<<A, B>>)}

\* delta_write_options: Optional[dict[str, Any]], a dict being the set of its
\* items; a caller passes None, an empty dict, or a dict with a description
\* of its own
NoneOptions == [none |-> TRUE, items |-> {}]
Dict(items) == [none |-> FALSE, items |-> items]
WriteOptionInputs ==
  { NoneOptions,
    Dict({}),
    Dict({<<"description", <<"x">>>>, <<"name", <<"n">>>>}) }

\* merge_condition values a caller passes: the five of the Literal and another
MergeConditions == {"update", "insert", "delete", "upsert", "upsert_delete"}
ConditionInputs == MergeConditions \cup {"replace"}

\* which engine call of a facade call meets a failure of the engine's own
\* (storage, I/O): none, the first, the second
Faults == 0..2

----------------------------------------------------------------------------
(* The engine: a table path holds no log (committed = FALSE) until a write  *)
(* commits; its rows are a bag, since nothing keeps the keys unique.        *)

NoData == [committed |-> FALSE, rows |-> EmptyBag]

\* an engine call as the engine sees it
EngineCall(fn, mode, path, rows, options, merge_options, actions, raised) ==
  [fn |-> fn, mode |-> mode, path |-> path, rows |-> rows, options |-> options,
   merge_options |-> merge_options, actions |-> actions, raised |-> raised]

\* what a call raises: the engine's own failure when the fault falls on this
\* call, TableNotFoundError when the call needs a log and the path has none
Raised(fault, nth, needs_log, path) ==
  IF fault = nth THEN "EngineError"
  ELSE IF needs_log /\ ~store[path].committed THEN "TableNotFoundError"
  ELSE "none"

\* write_delta(mode="append"): the rows are added, the log is created if missing
EngineAppend(st, rows) ==
  [committed |-> TRUE, rows |-> st.rows (+) SetToBag(rows)]

\* write_delta(mode="overwrite"): the rows replace the content
EngineOverwrite(st, rows) ==
  [committed |-> TRUE, rows |-> SetToBag(rows)]

\* the engine reads the predicate as a conjunction of clauses s.c = t.c
Clause(c) == <<"s", ".">> \o c \o <<" ", "=", " ", "t", ".">> \o c
And == <<" ", "A", "N", "D", " ">>
RenderPredicate(cols) == join(And, [i \in 1..Len(cols) |-> Clause(cols[i])])

\* the column lists the predicate can stand for over the table's columns;
\* none: the engine cannot resolve the predicate and the merge fails
EngineKeyColumns(predicate, columns) ==
  { cols \in UNION { [1..n -> columns] : n \in 1..Cardinality(columns) } :
      RenderPredicate(cols) = predicate }

Matches(t, s, cols) == \A i \in 1..Len(cols) : s[cols[i]] = t[cols[i]]

RECURSIVE SumCopies(_, _)
SumCopies(S, bag) ==
  IF S = {} THEN 0
  ELSE LET t == CHOOSE x \in S : TRUE
       IN CopiesIn(t, bag) + SumCopies(S \ {t}, bag)

\* TableMerger.execute(): every target row with a matching source row is
\* updated to it or deleted, every source row without a matching target row is
\* inserted, every target row without a matching source row is deleted, each
\* only when the action was asked for
EngineMerge(st, source, cols, actions) ==
  LET target == st.rows
      trows == BagToSet(target)
      matched(t) == \E s \in source : Matches(t, s, cols)
      keeps(t) ==
        IF matched(t)
          THEN actions \cap {"when_matched_update_all", "when_matched_delete"} = {}
          ELSE "when_not_matched_by_source_delete" \notin actions
      kept(r) == IF r \in trows /\ keeps(r) THEN CopiesIn(r, target) ELSE 0
      updated(r) ==
        IF "when_matched_update_all" \in actions /\ r \in source
          THEN SumCopies({t \in trows : Matches(t, r, cols)}, target)
          ELSE 0
      inserted(r) ==
        IF /\ "when_not_matched_insert_all" \in actions
           /\ r \in source
           /\ \A t \in trows : ~Matches(t, r, cols)
          THEN 1 ELSE 0
      count(r) == kept(r) + updated(r) + inserted(r)
      out == {r \in trows \cup source : count(r) > 0}
  IN [committed |-> TRUE, rows |-> [r \in out |-> count(r)]]

----------------------------------------------------------------------------
(* What a call of the table manager does: the catalog and the storage       *)
(* after it, the engine calls it made, what it raised ("ok": nothing) and   *)
(* what it returned.                                                        *)

Outcome(t, s, c, result, ret) ==
  [tables |-> t, store |-> s, calls |-> c, result |-> result, ret |-> ret]

\* an exception before any change
Raise(error, c) == Outcome(tables, store, c, error, "None")

NoOptions == {}
NoMerge == [predicate |-> <<>>, source_alias |-> <<>>, target_alias |-> <<>>]

\* BaseTable.validate_schema: the frame's columns and dtypes are the schema's
validate_schema(base_table, df) == df.schema = base_table.table_schema

\* the normalisation with ", " between the names
primary_keys_str_spaced(primary_keys) ==
  IF primary_keys.isList THEN join(<<Comma, Space>>, primary_keys.items)
  ELSE primary_keys.str

\* the str/list normalisation of create_table
primary_keys_str(primary_keys) ==
  IF primary_keys.isList THEN join(<<Comma>>, primary_keys.items)
  ELSE primary_keys.str

\* create_table that also commits an empty table under the path
create_table_eager(table_name, table_schema, primary_keys) ==
  LET base_table == [name |-> table_name, table_schema |-> table_schema,
                     primary_keys |-> primary_keys_str(primary_keys)]
      call == EngineCall("write_delta", "append", table_name, {},
                         NoOptions, NoMerge, {}, "none")
  IN Outcome([n \in DOMAIN tables \cup {table_name} |->
                IF n = table_name THEN base_table ELSE tables[n]],
             [store EXCEPT ![table_name] = EngineAppend(@, {})],
             <<call>>, "ok", "None")

BaseTableManager_create_table(table_name, table_schema, primary_keys) ==
  LET base_table == [name |-> table_name, table_schema |-> table_schema,
                     primary_keys |-> primary_keys_str(primary_keys)]
  IN Outcome([n \in DOMAIN tables \cup {table_name} |->
                IF n = table_name THEN base_table ELSE tables[n]],
             store, <<>>, "ok", "None")

\* delta_write_options = delta_write_options or {}; ["description"] = primary keys
write_options(base_table, delta_write_options) ==
  LET given == IF delta_write_options.none \/ delta_write_options.items = {}
                 THEN {} ELSE delta_write_options.items
  IN {it \in given : it[1] # "description"}
       \cup {<<"description", base_table.primary_keys>>}

BaseTableManager_append(table_name, df, delta_write_options) ==
  LET base_table == tables[table_name]
      call == EngineCall("write_delta", "append", table_name, df.rows,
                         write_options(base_table, delta_write_options), NoMerge, {}, "none")
  IN IF ~validate_schema(base_table, df) THEN Raise("SchemaMismatch", <<>>)
     ELSE Outcome(tables,
                  [store EXCEPT ![table_name] = EngineAppend(@, df.rows)],
                  <<call>>, "ok", "None")

\* overwrite without the schema gate
overwrite_unvalidated(table_name, df, delta_write_options) ==
  LET base_table == tables[table_name]
      call == EngineCall("write_delta", "overwrite", table_name, df.rows,
                         write_options(base_table, delta_write_options), NoMerge, {}, "none")
  IN Outcome(tables,
             [store EXCEPT ![table_name] = EngineOverwrite(@, df.rows)],
             <<call>>, "ok", "None")

BaseTableManager_overwrite(table_name, df, delta_write_options) ==
  LET base_table == tables[table_name]
      call == EngineCall("write_delta", "overwrite", table_name, df.rows,
                         write_options(base_table, delta_write_options), NoMerge, {}, "none")
  IN IF ~validate_schema(base_table, df) THEN Raise("SchemaMismatch", <<>>)
     ELSE Outcome(tables,
                  [store EXCEPT ![table_name] = EngineOverwrite(@, df.rows)],
                  <<call>>, "ok", "None")

\* the predicate of merge: one clause per piece of the comma-joined keys
merge_predicate(primary_keys) ==
  IF HasComma(primary_keys)
    THEN LET pieces == split(primary_keys)
             pk_columns == [i \in 1..Len(pieces) |-> strip(pieces[i])]
             predicate_conditions ==
               [i \in 1..Len(pk_columns) |->
                  <<"s", ".">> \o pk_columns[i] \o <<" ", "=", " ", "t", ".">>
                    \o pk_columns[i]]
         IN join(<<" ", "A", "N", "D", " ">>, predicate_conditions)
    ELSE <<"s", ".">> \o primary_keys \o <<" ", "=", " ", "t", ".">> \o primary_keys

delta_merge_options(primary_keys) ==
  [predicate |-> merge_predicate(primary_keys),
   source_alias |-> <<"s">>, target_alias |-> <<"t">>]

\* merge_actions with upsert_delete executed as upsert
merge_actions_no_source_delete(merge_condition) ==
  IF merge_condition = "update" THEN {"when_matched_update_all"}
  ELSE IF merge_condition = "insert" THEN {"when_not_matched_insert_all"}
  ELSE IF merge_condition = "delete" THEN {"when_matched_delete"}
  ELSE IF merge_condition \in {"upsert", "upsert_delete"}
    THEN {"when_matched_update_all", "when_not_matched_insert_all"}
  ELSE {}

\* the chain of TableMerger calls each merge condition executes
merge_actions(merge_condition) ==
  IF merge_condition = "update" THEN {"when_matched_update_all"}
  ELSE IF merge_condition = "insert" THEN {"when_not_matched_insert_all"}
  ELSE IF merge_condition = "delete" THEN {"when_matched_delete"}
  ELSE IF merge_condition = "upsert"
    THEN {"when_matched_update_all", "when_not_matched_insert_all"}
  ELSE IF merge_condition = "upsert_delete"
    THEN {"when_matched_update_all", "when_not_matched_insert_all",
          "when_not_matched_by_source_delete"}
  ELSE {}

\* merge_fallback with the append taken for insert alone
merge_fallback_insert_only(table_name, df, merge_condition, delta_write_options, opened, fault) ==
  LET base_table == tables[table_name]
      raised == Raised(fault, 2, FALSE, table_name)
      call == EngineCall("write_delta", "append", table_name, df.rows,
                         write_options(base_table, delta_write_options), NoMerge, {}, raised)
  IN IF merge_condition \in {"insert"}
       THEN IF raised = "none"
              THEN Outcome(tables,
                           [store EXCEPT ![table_name] = EngineAppend(@, df.rows)],
                           <<opened, call>>, "ok", "None")
              ELSE Raise(raised, <<opened, call>>)
       ELSE Raise("MergeUnavailable", <<opened>>)

\* the except TableNotFoundError branch of merge
merge_fallback(table_name, df, merge_condition, delta_write_options, opened, fault) ==
  LET base_table == tables[table_name]
      raised == Raised(fault, 2, FALSE, table_name)
      call == EngineCall("write_delta", "append", table_name, df.rows,
                         write_options(base_table, delta_write_options), NoMerge, {}, raised)
  IN IF merge_condition \in {"insert", "upsert"}
       THEN IF raised = "none"
              THEN Outcome(tables,
                           [store EXCEPT ![table_name] = EngineAppend(@, df.rows)],
                           <<opened, call>>, "ok", "None")
              ELSE Raise(raised, <<opened, call>>)
       ELSE Raise("MergeUnavailable", <<opened>>)

BaseTableManager_merge(table_name, df, merge_condition, delta_write_options, fault) ==
  LET base_table == tables[table_name]
      options == delta_merge_options(base_table.primary_keys)
      raised1 == Raised(fault, 1, TRUE, table_name)
      opened == EngineCall("write_delta", "merge", table_name, df.rows,
                           NoOptions, options, {}, raised1)
      actions == merge_actions(merge_condition)
      keys == EngineKeyColumns(options.predicate, Columns(df.schema))
      raised2 == IF fault = 2 \/ keys = {} THEN "EngineError" ELSE "none"
      executed == EngineCall("execute", "merge", table_name, df.rows,
                             NoOptions, options, actions, raised2)
  IN IF ~validate_schema(base_table, df) THEN Raise("SchemaMismatch", <<>>)
     ELSE IF raised1 = "TableNotFoundError"
       THEN merge_fallback(table_name, df, merge_condition, delta_write_options,
                           opened, fault)
     ELSE IF raised1 # "none" THEN Raise("MergeFailed", <<opened>>)
     ELSE IF actions = {} THEN Outcome(tables, store, <<opened>>, "ok", "None")
     ELSE IF raised2 # "none" THEN Raise("MergeFailed", <<opened, executed>>)
     ELSE Outcome(tables,
                  [store EXCEPT ![table_name] =
                     EngineMerge(@, df.rows, CHOOSE cols \in keys : TRUE, actions)],
                  <<opened, executed>>, "ok", "None")

\* the read without the empty frame: table-not-found is always an error
read_frame_no_empty(fn, table_name) ==
  LET raised == Raised(0, 1, TRUE, table_name)
      call == EngineCall(fn, "", table_name, {}, NoOptions, NoMerge, {}, raised)
  IN IF raised = "none"
       THEN Outcome(tables, store, <<call>>, "ok",
                    [schema |-> tables[table_name].table_schema,
                     rows |-> store[table_name].rows])
     ELSE Raise("ValueError", <<call>>)

\* read_delta / scan_delta, and the empty frame for a table without data
read_frame(fn, table_name) ==
  LET raised == Raised(0, 1, TRUE, table_name)
      call == EngineCall(fn, "", table_name, {}, NoOptions, NoMerge, {}, raised)
  IN IF raised = "none"
       THEN Outcome(tables, store, <<call>>, "ok",
                    [schema |-> tables[table_name].table_schema,
                     rows |-> store[table_name].rows])
     ELSE IF table_name \in DOMAIN tables
       THEN Outcome(tables, store, <<call>>, "ok",
                    [schema |-> tables[table_name].table_schema, rows |-> EmptyBag])
     ELSE Raise("ValueError", <<call>>)

BaseTableManager_get_data_frame(table_name) == read_frame("read_delta", table_name)

BaseTableManager_get_lazy_frame(table_name) == read_frame("scan_delta", table_name)

\* DeltaTable(path) and one maintenance call on it
maintain(fn, table_name) ==
  LET raised == Raised(0, 1, TRUE, table_name)
      open == EngineCall("DeltaTable", "", table_name, {}, NoOptions, NoMerge, {}, raised)
      call == EngineCall(fn, "", table_name, {}, NoOptions, NoMerge, {}, "none")
  IN IF raised # "none" THEN Raise(raised, <<open>>)
     ELSE Outcome(tables, store, <<open, call>>, "ok", "None")

BaseTableManager_optimize_table(table_name) == maintain("compact", table_name)

BaseTableManager_vacuum_table(table_name) == maintain("vacuum", table_name)

\* the report of get_table_info (version, metadata and file count are the
\* engine's and are left out)
table_info(table_name) ==
  [exists |-> TRUE, schema |-> tables[table_name].table_schema,
   primary_keys |-> tables[table_name].primary_keys]

BaseTableManager_get_table_info(table_name) ==
  LET raised == Raised(0, 1, TRUE, table_name)
      open == EngineCall("DeltaTable", "", table_name, {}, NoOptions, NoMerge, {}, raised)
  IN IF raised # "none" THEN Raise(raised, <<open>>)
     ELSE Outcome(tables, store, <<open>>, "ok", table_info(table_name))

\* get_table_info for every name of the catalog; the first failure ends it
\* (the names are taken in the order T1, T2: the dict's insertion order is
\* not part of the state)
BaseTableManager_list_tables ==
  LET open(n) == EngineCall("DeltaTable", "", n, {}, NoOptions, NoMerge, {},
                             Raised(0, 1, TRUE, n))
      names == SelectSeq(<<T1, T2>>, LAMBDA n : n \in DOMAIN tables)
      opens == [i \in 1..Len(names) |-> open(names[i])]
      failed == {i \in 1..Len(names) : opens[i].raised # "none"}
      first == CHOOSE i \in failed : \A j \in failed : i <= j
  IN IF failed # {}
       THEN Raise(opens[first].raised, SubSeq(opens, 1, first))
       ELSE Outcome(tables, store, opens, "ok",
                    [n \in DOMAIN tables |-> table_info(n)])

BaseTableManager_get_table_schema(table_name) ==
  Outcome(tables, store, <<>>, "ok", tables[table_name].table_schema)

\* LocalTableManager.delete_table: the entry and the files under the path go
BaseTableManager_delete_table(table_name) ==
  Outcome([n \in DOMAIN tables \ {table_name} |-> tables[n]],
          [store EXCEPT ![table_name] = NoData],
          <<>>, "ok", TRUE)

----------------------------------------------------------------------------
(* The facade: the parameter models, the existence checks, the delegation   *)

\* the field validator of table_name: not v or not v.strip()
validate_table_name(v) == ~(v = <<>> \/ strip(v) = <<>>)

\* the Literal of MergeOperationModel.merge_condition
validate_merge_condition(v) == v \in MergeConditions

check_table_exists(table_name) == table_name \in DOMAIN tables

\* the check that never raises
check_never_raises(table_name) == TRUE

check_table_not_exists(table_name) == table_name \notin DOMAIN tables

\* create_table without the check that the name is new
create_table_unchecked(table_name, table_schema, primary_keys) ==
  IF ~validate_table_name(table_name) THEN Raise("ValidationError", <<>>)
  ELSE BaseTableManager_create_table(table_name, table_schema, primary_keys)

LakeManager_create_table(table_name, table_schema, primary_keys) ==
  IF ~validate_table_name(table_name) THEN Raise("ValidationError", <<>>)
  ELSE IF ~check_table_not_exists(table_name) THEN Raise("DuplicateTable", <<>>)
  ELSE BaseTableManager_create_table(table_name, table_schema, primary_keys)

LakeManager_append_table(table_name, df, delta_write_options) ==
  IF ~validate_table_name(table_name) THEN Raise("ValidationError", <<>>)
  ELSE IF ~check_table_exists(table_name) THEN Raise("UnknownTable", <<>>)
  ELSE BaseTableManager_append(table_name, df, delta_write_options)

\* merge_table with merge_condition typed str, so that no value is refused
merge_table_any_condition(table_name, df, merge_condition, delta_write_options, fault) ==
  IF ~validate_table_name(table_name) THEN Raise("ValidationError", <<>>)
  ELSE IF ~check_table_exists(table_name) THEN Raise("UnknownTable", <<>>)
  ELSE BaseTableManager_merge(table_name, df, merge_condition, delta_write_options, fault)

LakeManager_merge_table(table_name, df, merge_condition, delta_write_options, fault) ==
  IF ~(validate_table_name(table_name) /\ validate_merge_condition(merge_condition))
    THEN Raise("ValidationError", <<>>)
  ELSE IF ~check_table_exists(table_name) THEN Raise("UnknownTable", <<>>)
  ELSE BaseTableManager_merge(table_name, df, merge_condition, delta_write_options, fault)

LakeManager_overwrite_table(table_name, df, delta_write_options) ==
  IF ~validate_table_name(table_name) THEN Raise("ValidationError", <<>>)
  ELSE IF ~check_table_exists(table_name) THEN Raise("UnknownTable", <<>>)
  ELSE BaseTableManager_overwrite(table_name, df, delta_write_options)

LakeManager_get_data_frame(table_name) ==
  IF ~validate_table_name(table_name) THEN Raise("ValidationError", <<>>)
  ELSE IF ~check_table_exists(table_name) THEN Raise("UnknownTable", <<>>)
  ELSE BaseTableManager_get_data_frame(table_name)

LakeManager_get_lazy_frame(table_name) ==
  IF ~validate_table_name(table_name) THEN Raise("ValidationError", <<>>)
  ELSE IF ~check_table_exists(table_name) THEN Raise("UnknownTable", <<>>)
  ELSE BaseTableManager_get_lazy_frame(table_name)

\* OptimizeTableModel and VacuumTableModel have no validator of table_name;
\* the facade drops what the manager returns
LakeManager_optimize_table(table_name) ==
  IF ~check_table_exists(table_name) THEN Raise("UnknownTable", <<>>)
  ELSE [BaseTableManager_optimize_table(table_name) EXCEPT !.ret = "None"]

LakeManager_vacuum_table(table_name) ==
  IF ~check_table_exists(table_name) THEN Raise("UnknownTable", <<>>)
  ELSE [BaseTableManager_vacuum_table(table_name) EXCEPT !.ret = "None"]

LakeManager_list_tables == BaseTableManager_list_tables

LakeManager_get_table_info(table_name) ==
  IF ~validate_table_name(table_name) THEN Raise("ValidationError", <<>>)
  ELSE IF ~check_table_exists(table_name) THEN Raise("UnknownTable", <<>>)
  ELSE BaseTableManager_get_table_info(table_name)

\* get_table_schema without the existence check: the dict lookup raises
get_table_schema_unchecked(table_name) ==
  IF ~validate_table_name(table_name) THEN Raise("ValidationError", <<>>)
  ELSE IF table_name \notin DOMAIN tables THEN Raise("KeyError", <<>>)
  ELSE BaseTableManager_get_table_schema(table_name)

LakeManager_get_table_schema(table_name) ==
  IF ~validate_table_name(table_name) THEN Raise("ValidationError", <<>>)
  ELSE IF ~check_table_exists(table_name) THEN Raise("UnknownTable", <<>>)
  ELSE BaseTableManager_get_table_schema(table_name)

\* delete_table without the existence check
delete_table_unchecked(table_name) ==
  IF ~validate_table_name(table_name) THEN Raise("ValidationError", <<>>)
  ELSE BaseTableManager_delete_table(table_name)

LakeManager_delete_table(table_name) ==
  IF ~validate_table_name(table_name) THEN Raise("ValidationError", <<>>)
  ELSE IF ~check_table_exists(table_name) THEN Raise("UnknownTable", <<>>)
  ELSE BaseTableManager_delete_table(table_name)

----------------------------------------------------------------------------
(* The state machine: one action per facade method *)

NoFrame == [schema |-> {}, rows |-> {}]
NoKeys == StrKey(<<>>)

\* a facade call and its arguments (those the method does not take are empty)
Call(op, table_name, df, merge_condition, table_schema, primary_keys) ==
  [op |-> op, table_name |-> table_name, df |-> df,
   merge_condition |-> merge_condition, table_schema |-> table_schema,
   primary_keys |-> primary_keys, delta_write_options |-> NoneOptions,
   result |-> "ok", ret |-> <<op, "None">>]

\* a write and the delta_write_options it was given
WriteCall(op, table_name, df, merge_condition, delta_write_options) ==
  [Call(op, table_name, df, merge_condition, {}, NoKeys)
     EXCEPT !.delta_write_options = delta_write_options]

NameCall(op, table_name) == Call(op, table_name, NoFrame, "", {}, NoKeys)

\* what the call returned, kept next to the method that returned it (the
\* methods return values of different types), or next to "raised"
Returns(call, o) == <<IF o.result = "ok" THEN call.op ELSE "raised", o.ret>>

\* the value the call returned
Returned(c) == c.ret[2]

\* the call runs to its end: the state is what it left
Step(call, o) ==
  /\ \A n \in Paths : BagCardinality(o.store[n].rows) <= MaxRows
  /\ tables' = o.tables
  /\ store' = o.store
  /\ calls' = o.calls
  /\ last' = [call EXCEPT !.result = o.result, !.ret = Returns(call, o)]
  /\ declared' =
       [n \in DOMAIN o.tables |->
          IF call.op = "create_table" /\ n = call.table_name /\ n \notin DOMAIN tables
            THEN [table_schema |-> call.table_schema,
                  primary_keys |-> call.primary_keys]
            ELSE declared[n]]

Init ==
  /\ tables = << >>
  /\ store = [n \in Paths |-> NoData]
  /\ calls = << >>
  /\ last = NameCall("__init__", <<>>)
  /\ declared = << >>

create_table_from(Names, Schemas, Decls) ==
  \E table_name \in Names, table_schema \in Schemas, primary_keys \in Decls :
    Step(Call("create_table", table_name, NoFrame, "", table_schema, primary_keys),
         LakeManager_create_table(table_name, table_schema, primary_keys))

append_table_from(Names, Frames, Options) ==
  \E table_name \in Names, df \in Frames, delta_write_options \in Options :
    Step(WriteCall("append_table", table_name, df, "", delta_write_options),
         LakeManager_append_table(table_name, df, delta_write_options))

merge_table_from(Names, Frames, Conditions, Options, FaultSet) ==
  \E table_name \in Names, df \in Frames, merge_condition \in Conditions,
     delta_write_options \in Options, fault \in FaultSet :
    Step(WriteCall("merge_table", table_name, df, merge_condition, delta_write_options),
         LakeManager_merge_table(table_name, df, merge_condition,
                                 delta_write_options, fault))

overwrite_table_from(Names, Frames, Options) ==
  \E table_name \in Names, df \in Frames, delta_write_options \in Options :
    Step(WriteCall("overwrite_table", table_name, df, "", delta_write_options),
         LakeManager_overwrite_table(table_name, df, delta_write_options))

delete_table_from(Names) ==
  \E table_name \in Names :
    Step(NameCall("delete_table", table_name), LakeManager_delete_table(table_name))

get_table_info_from(Names) ==
  \E table_name \in Names :
    Step(NameCall("get_table_info", table_name), LakeManager_get_table_info(table_name))

get_table_schema_from(Names) ==
  \E table_name \in Names :
    Step(NameCall("get_table_schema", table_name),
         LakeManager_get_table_schema(table_name))

----------------------------------------------------------------------------
(* Spec: every facade method, every name input, both catalog entries; the   *)
(* frames are the small ones and the writes pass no options of their own.   *)

SmallFrames ==
  { df \in DataFrames :
      /\ Cardinality(df.rows) <= 1
      /\ \A r \in df.rows : \A c \in DOMAIN r : r[c] = 1 }

create_table == create_table_from(NameInputs, {TableSchema}, PKDecls)

append_table == append_table_from(NameInputs, SmallFrames, {NoneOptions})

merge_table ==
  merge_table_from(NameInputs, SmallFrames, ConditionInputs, {NoneOptions}, Faults)

overwrite_table == overwrite_table_from(NameInputs, SmallFrames, {NoneOptions})

get_data_frame ==
  \E table_name \in NameInputs :
    Step(NameCall("get_data_frame", table_name), LakeManager_get_data_frame(table_name))

get_lazy_frame ==
  \E table_name \in NameInputs :
    Step(NameCall("get_lazy_frame", table_name), LakeManager_get_lazy_frame(table_name))

optimize_table ==
  \E table_name \in NameInputs :
    Step(NameCall("optimize_table", table_name), LakeManager_optimize_table(table_name))

vacuum_table ==
  \E table_name \in NameInputs :
    Step(NameCall("vacuum_table", table_name), LakeManager_vacuum_table(table_name))

list_tables == Step(NameCall("list_tables", <<>>), LakeManager_list_tables)

get_table_info == get_table_info_from(NameInputs)

get_table_schema == get_table_schema_from(NameInputs)

delete_table == delete_table_from(NameInputs)

Next ==
  \/ create_table
  \/ append_table
  \/ merge_table
  \/ overwrite_table
  \/ get_data_frame
  \/ get_lazy_frame
  \/ optimize_table
  \/ vacuum_table
  \/ list_tables
  \/ get_table_info
  \/ get_table_schema
  \/ delete_table

Spec == Init /\ [][Next]_vars

----------------------------------------------------------------------------
(* SpecWrites: the writes of one table with every frame, every merge        *)
(* condition and every engine fault, and the writes of the small frames     *)
(* with write options of the caller's.                                      *)

writes_create_table == create_table_from({T1}, {TableSchema}, PKDecls)

writes_append_table == append_table_from({T1}, DataFrames, {NoneOptions})

writes_merge_table ==
  merge_table_from({T1}, DataFrames, ConditionInputs, {NoneOptions}, Faults)

writes_overwrite_table == overwrite_table_from({T1}, DataFrames, {NoneOptions})

CallerOptions == WriteOptionInputs \ {NoneOptions}

writes_append_options == append_table_from({T1}, SmallFrames, CallerOptions)

writes_merge_options ==
  merge_table_from({T1}, SmallFrames, MergeConditions, CallerOptions, {0})

writes_overwrite_options == overwrite_table_from({T1}, SmallFrames, CallerOptions)

writes_delete_table == delete_table_from({T1})

NextWrites ==
  \/ writes_create_table
  \/ writes_append_table
  \/ writes_merge_table
  \/ writes_overwrite_table
  \/ writes_append_options
  \/ writes_merge_options
  \/ writes_overwrite_options
  \/ writes_delete_table

SpecWrites == Init /\ [][NextWrites]_vars

----------------------------------------------------------------------------
(* SpecKeys: one table, created with every primary-key declaration drawn    *)
(* below (every string of at most MaxLen characters over a, b, the comma    *)
(* and the blank; lists of plain names, of a padded name, of a name with a  *)
(* comma), then written, merged and looked up.                              *)

KeyChars == {"a", "b", Comma, Space}
KeyStrings == UNION { [1..n -> KeyChars] : n \in 0..MaxLen }
KeyLists ==
  { <<A>>, <<A, B>>, <<B, A>>, <<<<Space, "a">>, B>>, <<<<"a", Comma, "b">>>> }
KeyDecls == {StrKey(s) : s \in KeyStrings} \cup {ListKey(xs) : xs \in KeyLists}

NarrowSchema == {<<A, "Int64">>}
KeyFrames ==
  { [schema |-> sch, rows |-> {[c \in Columns(sch) |-> 1]}] :
      sch \in {TableSchema, NarrowSchema} }

keys_create_table == create_table_from({T1}, {TableSchema}, KeyDecls)

keys_create_narrow == create_table_from({T1}, {NarrowSchema}, {StrKey(A), ListKey(<<A>>)})

keys_append_table == append_table_from({T1}, KeyFrames, {NoneOptions})

keys_merge_table == merge_table_from({T1}, KeyFrames, {"upsert"}, {NoneOptions}, {0})

keys_get_table_info == get_table_info_from({T1})

keys_get_table_schema == get_table_schema_from({T1})

keys_delete_table == delete_table_from({T1})

NextKeys ==
  \/ keys_create_table
  \/ keys_create_narrow
  \/ keys_append_table
  \/ keys_merge_table
  \/ keys_get_table_info
  \/ keys_get_table_schema
  \/ keys_delete_table

SpecKeys == Init /\ [][NextKeys]_vars

----------------------------------------------------------------------------
(* Properties *)

WriteOps == {"append_table", "merge_table", "overwrite_table"}

\* the positions of the calls that write: an append, an overwrite, an executed merge
WriteCalls(cs) ==
  { i \in 1..Len(cs) :
      \/ cs[i].fn = "execute"
      \/ cs[i].fn = "write_delta" /\ cs[i].mode \in {"append", "overwrite"} }

AppendCalls(cs) ==
  { i \in 1..Len(cs) : cs[i].fn = "write_delta" /\ cs[i].mode = "append" }

ExecuteCalls(cs) == { i \in 1..Len(cs) : cs[i].fn = "execute" }

\* the latest call was a merge whose merge primitive reported table-not-found
FreshMerge ==
  /\ last.op = "merge_table"
  /\ calls # << >>
  /\ calls[1].fn = "write_delta"
  /\ calls[1].mode = "merge"
  /\ calls[1].raised = "TableNotFoundError"

\* C1: a merge that finds no committed table appends the whole source frame,
\* in one append call, for insert and upsert, and the call succeeds when the
\* engine takes the append; for update, delete and upsert_delete it fails
\* with the no-data error, no write call is made and the table stays without
\* committed data.
C1_FreshMergeFallback ==
  FreshMerge =>
    IF last.merge_condition \in {"insert", "upsert"}
      THEN /\ Len(calls) = 2
           /\ AppendCalls(calls) = {2}
           /\ WriteCalls(calls) = {2}
           /\ calls[2].path = last.table_name
           /\ calls[2].rows = last.df.rows
           /\ calls[2].raised = "none" =>
                /\ last.result = "ok"
                /\ store[last.table_name].committed
                /\ store[last.table_name].rows = SetToBag(last.df.rows)
      ELSE /\ last.result = "MergeUnavailable"
           /\ WriteCalls(calls) = {}
           /\ ~store[last.table_name].committed

C1_Witness ==
  /\ FreshMerge
  /\ last.merge_condition = "upsert"
  /\ last.result = "ok"
  /\ Cardinality(last.df.rows) = 2

\* C2: a write (append, merge with one of the five conditions, overwrite) of
\* a frame whose columns or dtypes differ from the schema of the table fails
\* with the schema error, reaches the engine with no call, and leaves the
\* catalog and the stored data as they were.
C2_SchemaMismatch ==
  [][ ( /\ last'.op \in WriteOps
        /\ last'.table_name \in DOMAIN tables
        /\ last'.op = "merge_table" => last'.merge_condition \in MergeConditions
        /\ last'.df.schema # tables[last'.table_name].table_schema )
      => /\ last'.result = "SchemaMismatch"
         /\ calls' = << >>
         /\ tables' = tables
         /\ store' = store ]_vars

C2_Witness ==
  /\ last.op = "overwrite_table"
  /\ last.result = "SchemaMismatch"
  /\ store[last.table_name].committed
  /\ BagCardinality(store[last.table_name].rows) > 0

\* the merge actions the specification gives for each merge condition
ExpectedActions(merge_condition) ==
  CASE merge_condition = "update" -> {"when_matched_update_all"}
    [] merge_condition = "insert" -> {"when_not_matched_insert_all"}
    [] merge_condition = "delete" -> {"when_matched_delete"}
    [] merge_condition = "upsert" ->
         {"when_matched_update_all", "when_not_matched_insert_all"}
    [] merge_condition = "upsert_delete" ->
         {"when_matched_update_all", "when_not_matched_insert_all",
          "when_not_matched_by_source_delete"}

\* the key columns of a declaration
DeclaredColumns(primary_keys) ==
  IF primary_keys.isList THEN primary_keys.items ELSE <<primary_keys.str>>

\* the merge that reached the engine's execute ran one set of actions, the
\* one of its merge condition
ExecutedAsSpecified(cs, merge_condition) ==
  ExecuteCalls(cs) # {} =>
    /\ Cardinality(ExecuteCalls(cs)) = 1
    /\ \A i \in ExecuteCalls(cs) : cs[i].actions = ExpectedActions(merge_condition)

\* C3 as claimed: each merge condition is executed once as its set of merge
\* actions, and after a successful upsert_delete the stored rows are the rows
\* of the source frame, row for row, whatever the table held.
C3_Original ==
  last.op = "merge_table" =>
    /\ ExecutedAsSpecified(calls, last.merge_condition)
    /\ (last.merge_condition = "upsert_delete" /\ last.result = "ok") =>
         store[last.table_name].rows = SetToBag(last.df.rows)

\* how many stored rows (copies counted) match row r on the key columns
MatchingCopies(bag, r, cols) ==
  SumCopies({t \in BagToSet(bag) : Matches(t, r, cols)}, bag)

\* C3 as amended: each merge condition is executed once as its set of merge
\* actions on a table with committed data; after a successful upsert_delete
\* the table holds the rows of the source frame and no other row, each source
\* row as many times as stored rows matched it (once when none did), hence
\* row for row the source when no two stored rows shared a primary key.
C3_MergeDispatch ==
  [][ last'.op = "merge_table" =>
        LET t == last'.table_name
            cols == DeclaredColumns(declared[t].primary_keys)
        IN /\ ExecutedAsSpecified(calls', last'.merge_condition)
           /\ ( /\ t \in DOMAIN tables
                /\ store[t].committed
                /\ calls' # << >>
                /\ calls'[1].raised = "none" )
              => Cardinality(ExecuteCalls(calls')) = 1
           /\ (last'.merge_condition = "upsert_delete" /\ last'.result = "ok") =>
                /\ BagToSet(store'[t].rows) = last'.df.rows
                /\ \A r \in last'.df.rows :
                     CopiesIn(r, store'[t].rows) =
                       IF MatchingCopies(store[t].rows, r, cols) = 0 THEN 1
                       ELSE MatchingCopies(store[t].rows, r, cols)
                /\ (\A r \in last'.df.rows :
                      MatchingCopies(store[t].rows, r, cols) <= 1)
                   => store'[t].rows = SetToBag(last'.df.rows) ]_vars

C3_Witness ==
  /\ last.op = "merge_table"
  /\ last.merge_condition = "upsert_delete"
  /\ last.result = "ok"
  /\ Cardinality(ExecuteCalls(calls)) = 1
  /\ Cardinality(last.df.rows) = 2
  /\ store[last.table_name].rows = SetToBag(last.df.rows)

\* the facade methods that take a table name, create_table apart
NamedOps ==
  {"append_table", "merge_table", "overwrite_table", "get_data_frame",
   "get_lazy_frame", "optimize_table", "vacuum_table", "get_table_info",
   "get_table_schema", "delete_table"}

\* those whose parameter model validates the name
NameValidatedOps == (NamedOps \ {"optimize_table", "vacuum_table"}) \cup {"create_table"}

\* empty or made of blanks
BlankName(n) == \A i \in 1..Len(n) : n[i] = Space

\* the parameter model of the call refuses its arguments
Invalid(c) ==
  \/ c.op \in NameValidatedOps /\ BlankName(c.table_name)
  \/ c.op = "merge_table" /\ c.merge_condition \notin MergeConditions

Rejections == {"ValidationError", "UnknownTable", "DuplicateTable"}

\* C4: create_table of a name the catalog holds fails with the
\* already-exists error and alters no entry of the catalog and no stored data.
C4_DuplicateCreate ==
  [][ (last'.op = "create_table" /\ last'.table_name \in DOMAIN tables)
      => /\ last'.result = "DuplicateTable"
         /\ tables' = tables
         /\ store' = store
         /\ calls' = << >> ]_vars

C4_Witness ==
  /\ last.op = "create_table"
  /\ last.result = "DuplicateTable"
  /\ DOMAIN tables = {T1, T2}
  /\ store[last.table_name].committed
  /\ primary_keys_str(last.primary_keys) # tables[last.table_name].primary_keys

\* C5 as claimed: each of the ten methods fails with the does-not-exist error
\* whenever its table name is not in the catalog.
C5_Original ==
  [][ (last'.op \in NamedOps /\ last'.table_name \notin DOMAIN tables)
      => last'.result = "UnknownTable" ]_vars

\* C5 as amended: each of the ten methods, called with a name that is not in
\* the catalog, fails with the does-not-exist error when its parameter model
\* accepts the arguments, and with the validation error when it does not (a
\* blank name, except for optimize_table and vacuum_table, whose models do
\* not validate the name; a merge condition outside the five).
C5_UnknownTable ==
  [][ (last'.op \in NamedOps /\ last'.table_name \notin DOMAIN tables)
      => last'.result =
           IF Invalid(last') THEN "ValidationError" ELSE "UnknownTable" ]_vars

C5_Witness ==
  /\ last.op = "optimize_table"
  /\ BlankName(last.table_name)
  /\ last.result = "UnknownTable"
  /\ tables # << >>

\* C6: a call that fails a precondition (a blank name where the name is
\* validated, a merge condition outside the five, a missing table, for
\* create_table a name already there) is rejected, and a rejected call has
\* made no engine call and left the catalog and the stored data as they were.
C6_RejectedBeforeAnyCall ==
  [][ LET fails ==
            \/ Invalid(last')
            \/ last'.op \in NamedOps /\ last'.table_name \notin DOMAIN tables
            \/ last'.op = "create_table" /\ last'.table_name \in DOMAIN tables
      IN /\ fails => last'.result \in Rejections
         /\ last'.result \in Rejections
              => /\ fails
                 /\ tables' = tables
                 /\ store' = store
                 /\ calls' = << >> ]_vars

C6_Witness ==
  /\ last.op = "merge_table"
  /\ last.merge_condition \notin MergeConditions
  /\ last.table_name \in DOMAIN tables
  /\ store[last.table_name].committed
  /\ last.result = "ValidationError"

\* once out of the catalog a name comes back by create_table alone; until
\* then the lookups and the writes whose arguments are valid refuse it as
\* unknown, and list_tables reports the names of the catalog
C7_AbsentUntilCreated ==
  /\ \A n \in DOMAIN tables' \ DOMAIN tables :
       last'.op = "create_table" /\ last'.table_name = n
  /\ ( /\ last'.op \in {"get_table_schema", "get_table_info"} \cup WriteOps
       /\ ~Invalid(last')
       /\ last'.table_name \notin DOMAIN tables )
     => last'.result = "UnknownTable"
  /\ (last'.op = "list_tables" /\ last'.result = "ok")
     => DOMAIN Returned(last') = DOMAIN tables

\* delete_table of a name in the catalog removes that entry and no other
C7_Removes ==
  (last'.op = "delete_table" /\ last'.table_name \in DOMAIN tables)
    => /\ last'.result = "ok"
       /\ DOMAIN tables' = DOMAIN tables \ {last'.table_name}
       /\ \A n \in DOMAIN tables' : tables'[n] = tables[n]

\* C7 as claimed: delete_table of a name that is not in the catalog fails
\* with the does-not-exist error and changes nothing; delete_table of a name
\* in the catalog removes the entry, and the name stays out of the catalog,
\* refused by the lookups and the writes and absent from list_tables, until
\* it is created again.
C7_Original ==
  [][ /\ (last'.op = "delete_table" /\ last'.table_name \notin DOMAIN tables)
         => /\ last'.result = "UnknownTable"
            /\ tables' = tables
            /\ store' = store
            /\ calls' = << >>
      /\ C7_Removes
      /\ C7_AbsentUntilCreated ]_vars

\* C7 as amended: the same, for a name that is not blank; a blank name is
\* refused by the validation of the name, and nothing changes either.
C7_DeleteTable ==
  [][ /\ (last'.op = "delete_table" /\ last'.table_name \notin DOMAIN tables)
         => /\ last'.result =
                 IF BlankName(last'.table_name) THEN "ValidationError"
                 ELSE "UnknownTable"
            /\ tables' = tables
            /\ store' = store
            /\ calls' = << >>
      /\ C7_Removes
      /\ C7_AbsentUntilCreated ]_vars

C7_Witness ==
  /\ last.op = "get_table_schema"
  /\ last.result = "UnknownTable"
  /\ last.table_name = T1
  /\ DOMAIN tables = {T2}
  /\ store[T2].committed

\* the primary-key string the specification gives for a declaration: the
\* names in declared order with a comma between them, a single name as it is
RECURSIVE CommaJoined(_)
CommaJoined(names) ==
  IF names = << >> THEN << >>
  ELSE IF Len(names) = 1 THEN names[1]
  ELSE CommaJoined(SubSeq(names, 1, Len(names) - 1)) \o <<Comma>> \o names[Len(names)]

ExpectedKeys(primary_keys) ==
  IF primary_keys.isList THEN CommaJoined(primary_keys.items) ELSE primary_keys.str

\* C8: as long as an entry stays in the catalog no facade call changes its
\* schema or its primary-key string: they are those given at creation, and
\* get_table_schema returns that schema.
C8_DefinitionImmutable ==
  /\ \A n \in DOMAIN tables :
       /\ tables[n].table_schema = declared[n].table_schema
       /\ tables[n].primary_keys = ExpectedKeys(declared[n].primary_keys)
  /\ (last.op = "get_table_schema" /\ last.result = "ok")
       => Returned(last) = declared[last.table_name].table_schema

C8_Witness ==
  /\ last.op = "get_table_schema"
  /\ last.result = "ok"
  /\ store[last.table_name].committed
  /\ tables[last.table_name].primary_keys = <<"a", Comma, "b">>

\* C9: create_table leaves under the name a definition with the declared
\* schema and, as primary keys, the declared names joined by commas in
\* declared order (a single name as it is); get_table_schema and
\* get_table_info return that schema and that string.
C9_CreateThenLookup ==
  /\ (last.op = "create_table" /\ last.result = "ok") =>
       /\ last.table_name \in DOMAIN tables
       /\ tables[last.table_name].name = last.table_name
       /\ tables[last.table_name].table_schema = last.table_schema
       /\ tables[last.table_name].primary_keys = ExpectedKeys(last.primary_keys)
  /\ (last.op = "get_table_schema" /\ last.result = "ok") =>
       Returned(last) = declared[last.table_name].table_schema
  /\ (last.op = "get_table_info" /\ last.result = "ok") =>
       /\ Returned(last).schema = declared[last.table_name].table_schema
       /\ Returned(last).primary_keys =
            ExpectedKeys(declared[last.table_name].primary_keys)

C9_Witness ==
  /\ last.op = "get_table_info"
  /\ last.result = "ok"
  /\ declared[last.table_name].primary_keys = ListKey(<<B, A>>)
  /\ Returned(last).primary_keys = <<"b", Comma, "a">>

\* the predicate the specification gives for a declaration: one clause
\* s.k = t.k per declared key column, in declared order, joined by AND
ExpectedPredicate(primary_keys) ==
  IF primary_keys.isList THEN RenderPredicate(primary_keys.items)
  ELSE Clause(primary_keys.str)

\* a declaration that names its key columns one by one: a list of names, or
\* a string that is one name (a string with a comma declares several)
NamesItsColumns(primary_keys) ==
  IF primary_keys.isList THEN primary_keys.items # << >>
  ELSE ~HasComma(primary_keys.str)

\* C10: every merge passes the engine the aliases s and t and, as predicate,
\* s.k1 = t.k1 AND ... AND s.kn = t.kn over the declared key columns in
\* declared order, s.k = t.k for a single key declared as a string or as a
\* list of one name.
C10_MergePredicate ==
  \A i \in 1..Len(calls) :
    (calls[i].fn = "write_delta" /\ calls[i].mode = "merge"
       /\ NamesItsColumns(declared[calls[i].path].primary_keys))
    => /\ calls[i].merge_options.source_alias = <<"s">>
       /\ calls[i].merge_options.target_alias = <<"t">>
       /\ calls[i].merge_options.predicate =
            ExpectedPredicate(declared[calls[i].path].primary_keys)

\* C11: list_tables returns a mapping whose keys are the names of the
\* catalog, and get_table_info of a name in the catalog returns its report
\* (exists, the declared schema, the declared primary keys), a table created
\* and not yet written included; neither changes the catalog or the stored
\* data.
C11_ListAndInfo ==
  [][ /\ last'.op = "list_tables" =>
           /\ last'.result = "ok"
           /\ DOMAIN Returned(last') = DOMAIN tables
      /\ (last'.op = "get_table_info" /\ last'.table_name \in DOMAIN tables) =>
           /\ last'.result = "ok"
           /\ Returned(last').exists
           /\ Returned(last').schema = declared[last'.table_name].table_schema
           /\ Returned(last').primary_keys =
                ExpectedKeys(declared[last'.table_name].primary_keys)
      /\ last'.op \in {"list_tables", "get_table_info"} =>
           /\ tables' = tables
           /\ store' = store ]_vars

\* the engine calls of a write that the engine took: write_delta in any mode
\* and the merge's execute
EngineWrites(cs) ==
  { i \in 1..Len(cs) :
      /\ cs[i].fn \in {"write_delta", "execute"}
      /\ cs[i].raised = "none" }

\* the values an options dict holds under "description"
Descriptions(options) == { it[2] : it \in {x \in options : x[1] = "description"} }

\* C12: every engine call of a write that the engine takes (append,
\* overwrite, merge with each of the five conditions, opened and executed or
\* turned into the fallback append) carries as its description the
\* primary-key string of the table, whatever description the caller gave.
C12_WriteMetadata ==
  \A i \in EngineWrites(calls) :
    Descriptions(calls[i].options) = {tables[calls[i].path].primary_keys}

\* C13: a merge that has passed the schema validation and meets a failure of
\* the engine other than table-not-found, in opening the merge, in executing
\* its actions or in the fallback append of insert and upsert, fails with the
\* generic merge failure.
C13_MergeFailureWrapped ==
  last.op = "merge_table" =>
    \A i \in 1..Len(calls) :
      calls[i].raised = "EngineError" => last.result = "MergeFailed"

\* the writes that create the storage of a table when they succeed
CreatesStorage(c) ==
  \/ c.op \in {"append_table", "overwrite_table"}
  \/ c.op = "merge_table" /\ c.merge_condition \in {"insert", "upsert"}

\* C14: create_table adds the entry, makes no engine call and creates no
\* storage; a path comes to hold committed data through a successful append,
\* overwrite or insert/upsert merge on a table of the catalog and in no other
\* way, so that a table holds committed data only if such a write succeeded
\* since it was created; a write that fails with the schema error, the
\* no-data error or the does-not-exist error leaves the storage as it was.
C14_LazyStorage ==
  [][ /\ last'.op = "create_table" =>
           /\ calls' = << >>
           /\ store' = store
           /\ last'.result = "ok" =>
                /\ last'.table_name \in DOMAIN tables'
                /\ ~store'[last'.table_name].committed
      /\ \A n \in Paths :
           /\ store'[n].committed => n \in DOMAIN tables'
           /\ (store'[n].committed /\ ~store[n].committed) =>
                /\ n \in DOMAIN tables
                /\ last'.table_name = n
                /\ CreatesStorage(last')
                /\ last'.result = "ok"
      /\ ( /\ last'.op \in WriteOps
           /\ last'.result \in {"SchemaMismatch", "MergeUnavailable", "UnknownTable"} )
         => /\ store' = store
            /\ WriteCalls(calls') = {} ]_vars

C14_Witness ==
  /\ last.op = "append_table"
  /\ last.result = "ok"
  /\ last.table_name = T1
  /\ store[T1].committed
  /\ T2 \in DOMAIN tables
  /\ ~store[T2].committed

ReadOps == {"get_data_frame", "get_lazy_frame"}

\* a read of a table of the catalog without committed data returns the empty
\* frame of the declared schema and changes nothing
C15_EmptyFrame ==
  ( /\ last'.op \in ReadOps
    /\ last'.table_name \in DOMAIN tables
    /\ ~store[last'.table_name].committed )
  => /\ last'.result = "ok"
     /\ Returned(last') = [schema |-> declared[last'.table_name].table_schema,
                     rows |-> EmptyBag]
     /\ tables' = tables
     /\ store' = store

\* C15 as claimed: get_data_frame and get_lazy_frame of a table of the
\* catalog without committed data return the empty frame of the declared
\* schema and change nothing; of a name that is not in the catalog they fail
\* with the does-not-exist error before any engine call.
C15_Original ==
  [][ /\ C15_EmptyFrame
      /\ (last'.op \in ReadOps /\ last'.table_name \notin DOMAIN tables)
         => /\ last'.result = "UnknownTable"
            /\ calls' = << >>
            /\ tables' = tables
            /\ store' = store ]_vars

\* C15 as amended: the same, the name that is not in the catalog being
\* refused with the does-not-exist error when it is not blank and with the
\* validation error of the name when it is, before any engine call in both
\* cases.
C15_ReadWithoutData ==
  [][ /\ C15_EmptyFrame
      /\ (last'.op \in ReadOps /\ last'.table_name \notin DOMAIN tables)
         => /\ last'.result =
                 IF BlankName(last'.table_name) THEN "ValidationError"
                 ELSE "UnknownTable"
            /\ calls' = << >>
            /\ tables' = tables
            /\ store' = store ]_vars

C15_Witness ==
  /\ last.op = "get_lazy_frame"
  /\ last.result = "ok"
  /\ last.table_name = T2
  /\ ~store[T2].committed
  /\ Returned(last) = [schema |-> TableSchema, rows |-> EmptyBag]
  /\ Len(calls) = 1
  /\ calls[1].raised = "TableNotFoundError"
  /\ store[T1].committed

====
